---- MODULE Spec2Model ----
(***************************************************************************)
(* Model of the suggestion diff-and-apply pipeline of the Aurora extension *)
(* (DiffService, the diff handlers of ChatWebview) and of the request      *)
(* retry loop of its provider services.                                    *)
(*                                                                         *)
(* Texts are sequences of one-character strings.  Positions are            *)
(* [line, character] records and ranges [start, end] records, as in the    *)
(* editor API the handlers call.                                           *)
(***************************************************************************)
EXTENDS Integers, Sequences, FiniteSets, TLC

VARIABLES
    original,            \* text handed to showDiffs as `original`
    suggested,           \* the suggestion of the model, handed to showDiffs / carried by the o1pro response
    buffer,              \* text of the document of the active editor
    currentDiffs,        \* ChatWebview.currentDiffs
    pendingChanges,      \* ChatWebview.pendingChanges
    currentChangeIndex,  \* ChatWebview.currentChangeIndex
    lastOp,              \* the handler that ran last
    lastEditor,          \* whether that handler found an active editor
    lastBatch,           \* the replace calls that handler issued, in issue order
    opCount,             \* number of handlers run so far
    diffError,           \* the computeDiffs call of the last showDiffs caught an error
    lastPost,            \* the updateDiffs message the handler that ran last posted to the panel, if any
    edits,               \* the editor.edit calls of the diff handlers the editor has not applied yet, oldest first
    model,               \* the model of the generateResponse call
    via,                 \* the call enters at ModelManager or at the service itself
    apiKey,              \* a credential is stored for the model (o1pro: the session is active)
    defaultConfig,       \* settings.modelConfigs holds a configuration for the model
    pc,                  \* position of the generateResponse call
    attempt,             \* local `attempt` of the retry loop
    lastError,           \* local `lastError` of the retry loop: <<>> is null, <<m>> an error with message m
    requests,            \* outcome of every request sent to the provider, in order
    sleeps,              \* every delay(ms) the call has started, in order
    result,              \* what the call resolved or rejected with
    config,              \* the `config` argument of the call: the caller's override, field by field
    modelConfig,         \* local `modelConfig` of the call: what getModelConfig returned
    settings,            \* settings.modelConfigs: the stored default configuration of every model
    sent,                \* max_tokens of the body of every request sent, in order
    calls,               \* the generateResponse calls made on one service while others are outstanding, by start order
    abortController,     \* the call whose request created the AbortController the service holds; 0 is null
    currentModel,        \* ConfigManager.currentModel
    defaultModel,        \* globalState 'defaultModel', 'gpt-3.5-turbo' when nothing is stored
    o1proSession,        \* the secret 'o1proSession' is 'active'
    geminiKey,           \* a Gemini key is stored in the secret storage
    mgrOp,               \* the manager call that ran last, and how its updateDefaultModel ended
    syncInterval,        \* SyncManager.syncInterval: the timer it holds; 0 is null
    timers               \* the interval timers that are running

csVars == <<original, suggested, buffer, currentDiffs,
            pendingChanges, currentChangeIndex, lastOp, lastEditor, lastBatch,
            opCount, diffError, lastPost, edits>>

soloVars == <<model, via, apiKey, defaultConfig, pc, attempt, lastError, requests, sleeps, result,
              config, modelConfig, settings, sent>>

callVars == <<calls, abortController>>

genVars == <<soloVars, callVars>>

mgrVars == <<currentModel, defaultModel, o1proSession, geminiKey, mgrOp, syncInterval, timers>>

vars == <<csVars, genVars, mgrVars>>

\* a value as JavaScript sees it: typeof v, and the number when it is one
\* (temperature, topP and the penalties in tenths)
Num(n) == [type |-> "number", v |-> n]
Str == [type |-> "string", v |-> 0]
Undefined == [type |-> "undefined", v |-> 0]

ConfigFields == {"temperature", "maxTokens", "topP", "frequencyPenalty", "presencePenalty"}

\* a call without `config`, or with a `config` that supplies no field
NoOverride == [f \in ConfigFields |-> Undefined]

\* the models a call can name; "other" is a model ModelManager does not know
Models == {"gpt-3.5-turbo", "gpt-4", "gemini-pro", "claude-3-sonnet", "o1pro", "other"}

\* MODEL_TOKEN_LIMITS
MODEL_TOKEN_LIMITS(m) ==
    CASE m = "gpt-3.5-turbo" -> 16385
      [] m = "gpt-4" -> 8192
      [] m = "gemini-pro" -> 32768
      [] m = "claude-3-sonnet" -> 200000
      [] OTHER -> 128000

\* DEFAULT_MODEL_CONFIGS[m], which settings.modelConfigs holds unless the user
\* stored another
DEFAULT_MODEL_CONFIGS(m) ==
    [f \in ConfigFields |->
        CASE f = "maxTokens" -> Num(MODEL_TOKEN_LIMITS(m))
          [] f = "temperature" -> Num(7)
          [] f = "topP" -> Num(10)
          [] OTHER -> Num(0)]

\* no generateResponse call has been made
\* the managers after construction on a fresh installation
MgrIdle ==
    /\ currentModel = "gpt-3.5-turbo"
    /\ defaultModel = "gpt-3.5-turbo"
    /\ o1proSession = FALSE
    /\ geminiKey = FALSE
    /\ mgrOp = [op |-> "none", update |-> "none"]
    /\ syncInterval = 0
    /\ timers = {}

GenRest ==
    /\ MgrIdle
    /\ model = "gpt-3.5-turbo"
    /\ via = "manager"
    /\ apiKey = FALSE
    /\ defaultConfig = TRUE
    /\ pc = "idle"
    /\ attempt = 0
    /\ lastError = <<>>
    /\ requests = <<>>
    /\ sleeps = <<>>
    /\ result = "none"
    /\ modelConfig = NoOverride
    /\ settings = [m \in Models |-> DEFAULT_MODEL_CONFIGS(m)]
    /\ sent = <<>>
    /\ calls = <<>>
    /\ abortController = 0

\* no generateResponse call has been made, and the next one comes without `config`
GenIdle ==
    /\ config = NoOverride
    /\ GenRest

(***************************************************************************)
(* Bounds of the model.                                                    *)
(***************************************************************************)
MaxLen == 2
MaxOps == 3

NL == "\n"
Alphabet == {"a", NL}

RECURSIVE Texts(_)
Texts(n) ==
    IF n = 0 THEN {<<>>}
    ELSE Texts(n - 1) \cup {Append(t, c) : t \in {u \in Texts(n - 1) : Len(u) = n - 1}, c \in Alphabet}

Min(a, b) == IF a < b THEN a ELSE b
Max(a, b) == IF a > b THEN a ELSE b

Drop(s, k) == SubSeq(s, k + 1, Len(s))
Take(s, k) == SubSeq(s, 1, k)

(***************************************************************************)
(* Positions.                                                              *)
(***************************************************************************)
Position(l, c) == [line |-> l, character |-> c]

\* a range that ends where it starts, whatever end it is given
Range_collapsed(s, e) == [start |-> s, end |-> s]

Range(s, e) == [start |-> s, end |-> e]

PosLess(p, q) ==
    \/ p.line < q.line
    \/ p.line = q.line /\ p.character < q.character

PosLeq(p, q) == p = q \/ PosLess(p, q)

NewlinesIn(t) == Cardinality({i \in 1..Len(t) : t[i] = NL})

\* index (0 when there is none) of the last line break among the first `offset` characters
LastBreak(offset, text) ==
    LET S == {i \in 1..offset : text[i] = NL}
    IN IF S = {} THEN 0 ELSE CHOOSE i \in S : \A j \in S : j <= i

\* text.split('\n')
RECURSIVE SplitLines(_)
SplitLines(t) ==
    LET S == {i \in 1..Len(t) : t[i] = NL}
    IN IF S = {} THEN <<t>>
       ELSE LET k == CHOOSE i \in S : \A j \in S : i <= j
            IN <<Take(t, k - 1)>> \o SplitLines(Drop(t, k))

\* positionAt with the column counted from the start of the text
positionAt_columnFromStart(offset, text) ==
    LET lines == SplitLines(Take(text, Min(Max(offset, 0), Len(text))))
    IN Position(Len(lines) - 1, Min(Max(offset, 0), Len(text)))

\* DiffService.positionAt: lines = text.slice(0, offset).split('\n'), and the
\* position is (lines.length - 1, lines[lines.length - 1].length)
positionAt(offset, text) ==
    LET lines == SplitLines(Take(text, Min(Max(offset, 0), Len(text))))
    IN Position(Len(lines) - 1, Len(lines[Len(lines)]))

(***************************************************************************)
(* Diff engine (DiffService).                                              *)
(***************************************************************************)
\* One segment of the operation stream of diff-match-patch:
\* op is -1 (delete), 0 (equal) or 1 (insert).
Seg(o, t) == [op |-> o, text |-> t]

\* the texts of a delete and of the insert that follows it have no first and
\* no last character in common (the library moves them into the equalities)
NoCommonEnds(x, y) == x[1] # y[1] /\ x[Len(x)] # y[Len(y)]

\* The operation streams that turn `a` into `b`: segments are non-empty, an
\* equality is followed by a changed region and a changed region by an
\* equality, and a changed region is a delete, an insert, or a delete and then
\* an insert.  `last` tells what came before: "start", "equal" or "change".
RECURSIVE Scripts(_, _, _)
Scripts(a, b, last) ==
    IF a = <<>> /\ b = <<>> THEN {<<>>}
    ELSE
        LET eqs == IF last = "equal" THEN {}
                   ELSE UNION {{<<Seg(0, Take(a, k))>> \o s : s \in Scripts(Drop(a, k), Drop(b, k), "equal")} :
                               k \in {j \in 1..Min(Len(a), Len(b)) : Take(a, j) = Take(b, j)}}
            dels == UNION {{<<Seg(-1, Take(a, k))>> \o s : s \in Scripts(Drop(a, k), b, "change")} :
                           k \in 1..Len(a)}
            inss == UNION {{<<Seg(1, Take(b, k))>> \o s : s \in Scripts(a, Drop(b, k), "change")} :
                           k \in 1..Len(b)}
            both == UNION {{<<Seg(-1, Take(a, k)), Seg(1, Take(b, l))>> \o s :
                                s \in Scripts(Drop(a, k), Drop(b, l), "change")} :
                           <<k, l>> \in {kl \in (1..Len(a)) \X (1..Len(b)) :
                                            NoCommonEnds(Take(a, kl[1]), Take(b, kl[2]))}}
        IN IF last = "change" THEN eqs ELSE eqs \cup dels \cup inss \cup both

\* dmp.diff_main followed by dmp.diff_cleanupSemantic.  The library is not
\* part of the repository; the model keeps what it guarantees: equal texts
\* give no edit, and otherwise the stream is some edit script from text1 to
\* text2 in the library's normal form.
diff_main(text1, text2) ==
    IF text1 = text2
    THEN (IF text1 = <<>> THEN {<<>>} ELSE {<<Seg(0, text1)>>})
    ELSE Scripts(text1, text2, "start")

DiffChange(o, s, r, st) == [original |-> o, suggested |-> s, range |-> r, status |-> st]

\* the loop without its test operation !== 0: a record for an equality too
RECURSIVE ConvertFrom_equalToo(_, _, _)
ConvertFrom_equalToo(diffs, currentPos, orig) ==
    IF diffs = <<>> THEN <<>>
    ELSE
        LET operation == Head(diffs).op
            text == Head(diffs).text
            range == Range(positionAt(currentPos, orig),
                           positionAt(currentPos + (IF operation = -1 THEN Len(text) ELSE 0), orig))
            change == DiffChange(IF operation = -1 THEN text ELSE <<>>,
                                 IF operation = 1 THEN text ELSE <<>>,
                                 range, "pending")
            nextPos == IF operation # 1 THEN currentPos + Len(text) ELSE currentPos
        IN <<change>> \o ConvertFrom_equalToo(Tail(diffs), nextPos, orig)

\* DiffService.convertToRangedDiffs: the loop over the segments, with the
\* running offset currentPos into `orig`.
RECURSIVE ConvertFrom(_, _, _)
ConvertFrom(diffs, currentPos, orig) ==
    IF diffs = <<>> THEN <<>>
    ELSE
        LET operation == Head(diffs).op
            text == Head(diffs).text
            range == Range(positionAt(currentPos, orig),
                           positionAt(currentPos + (IF operation = -1 THEN Len(text) ELSE 0), orig))
            change == DiffChange(IF operation = -1 THEN text ELSE <<>>,
                                 IF operation = 1 THEN text ELSE <<>>,
                                 range, "pending")
            nextPos == IF operation # 1 THEN currentPos + Len(text) ELSE currentPos
        IN (IF operation # 0 THEN <<change>> ELSE <<>>) \o ConvertFrom(Tail(diffs), nextPos, orig)

\* the loop started with currentPos = 1
convertToRangedDiffs_fromOne(diffs, orig) == ConvertFrom(diffs, 1, orig)

convertToRangedDiffs(diffs, orig) == ConvertFrom(diffs, 0, orig)

\* DiffService.computeDiffs: the change sets it can return for (orig, sugg);
\* `raised` tells that the diff computation threw, which the catch turns into
\* an empty list
computeDiffs(orig, sugg, raised) ==
    IF raised THEN {<<>>}
    ELSE {convertToRangedDiffs(d, orig) : d \in diff_main(orig, sugg)}

(***************************************************************************)
(* The document of the active editor.                                      *)
(***************************************************************************)
LineCount(buf) == NewlinesIn(buf) + 1

\* offset of the first character of line l (0-based), for l < LineCount(buf)
LineStart(buf, l) ==
    IF l = 0 THEN 0
    ELSE CHOOSE i \in 1..Len(buf) : buf[i] = NL /\ NewlinesIn(Take(buf, i)) = l

LineLength(buf, l) ==
    (IF l = LineCount(buf) - 1 THEN Len(buf) ELSE LineStart(buf, l + 1) - 1) - LineStart(buf, l)

\* the editor adjusts a position to the document it is used on
validatePosition(buf, p) ==
    IF p.line >= LineCount(buf)
    THEN Position(LineCount(buf) - 1, LineLength(buf, LineCount(buf) - 1))
    ELSE Position(p.line, Min(p.character, LineLength(buf, p.line)))

offsetAt(buf, p) ==
    LET q == validatePosition(buf, p) IN LineStart(buf, q.line) + q.character

\* one editBuilder.replace(range, text) carried out on the text buf
Replace(buf, range, text) ==
    Take(buf, offsetAt(buf, range.start)) \o text \o Drop(buf, offsetAt(buf, range.end))

\* a replace call as issued: the index of its record in the list it comes from
Edit(i, r, t) == [idx |-> i, range |-> r, text |-> t]

\* the edits applied one after the other, each on the text the one before left
RECURSIVE ApplySequential(_, _)
ApplySequential(buf, batch) ==
    IF batch = <<>> THEN buf
    ELSE ApplySequential(Replace(buf, Head(batch).range, Head(batch).text), Tail(batch))

\* editor.edit(callback): the replace calls the callback issues take effect on
\* the document in the order they are issued, each on the text the one before
\* left (the order of application the handlers sort their batch for)
EditorEdit(buf, batch) == ApplySequential(buf, batch)

(***************************************************************************)
(* Change sets (ChatWebview).                                              *)
(***************************************************************************)
\* the comparator of the sort in the accept-all handlers puts a before b:
\* (a, b) => b.range.start.line - a.range.start.line is negative
SortsBefore(a, b) == b.range.start.line - a.range.start.line < 0

\* [...list].sort(comparator): the indices of list in sorted order; the sort
\* is stable, records the comparator does not separate keep their order
RECURSIVE SortFrom(_, _)
SortFrom(list, S) ==
    IF S = {} THEN <<>>
    ELSE LET m == CHOOSE i \in S : \A j \in S \ {i} :
                      \/ SortsBefore(list[i], list[j])
                      \/ ~SortsBefore(list[j], list[i]) /\ i < j
         IN <<m>> \o SortFrom(list, S \ {m})

sortedDiffs(list) == SortFrom(list, 1..Len(list))

SetStatus(list, S, st) ==
    [i \in 1..Len(list) |-> IF i \in S THEN [list[i] EXCEPT !.status = st] ELSE list[i]]

PendingIn(list) == {i \in 1..Len(list) : list[i].status = "pending"}

RECURSIVE SelectSeq2(_, _, _)
SelectSeq2(order, list, S) ==
    IF order = <<>> THEN <<>>
    ELSE (IF Head(order) \in S
          THEN <<Edit(Head(order), list[Head(order)].range, list[Head(order)].suggested)>>
          ELSE <<>>) \o SelectSeq2(Tail(order), list, S)

\* handleAcceptAllDiffs without its test of diff.status
AcceptAllBatch_noStatusTest(list) == SelectSeq2(sortedDiffs(list), list, 1..Len(list))

\* the replace calls handleAcceptAllDiffs issues for the change set `list`
AcceptAllBatch(list) == SelectSeq2(sortedDiffs(list), list, PendingIn(list))

\* the replace calls acceptAllChanges issues for the change set `list`
AcceptAllChangesBatch(list) == SelectSeq2(sortedDiffs(list), list, 1..Len(list))

\* ChatWebview.generateDiffs: the line-by-line diff, one entry per line that
\* differs, with offsets into `orig`
RECURSIVE GenerateFrom(_, _, _, _)
GenerateFrom(originalLines, suggestedLines, i, offset) ==
    IF i > Max(Len(originalLines), Len(suggestedLines)) THEN <<>>
    ELSE
        LET originalLine == IF i <= Len(originalLines) THEN originalLines[i] ELSE <<>>
            suggestedLine == IF i <= Len(suggestedLines) THEN suggestedLines[i] ELSE <<>>
            entry == [original |-> originalLine, suggested |-> suggestedLine,
                      startOffset |-> offset,
                      endOffset |-> offset + Max(Len(originalLine), Len(suggestedLine))]
        IN (IF originalLine # suggestedLine THEN <<entry>> ELSE <<>>)
           \o GenerateFrom(originalLines, suggestedLines, i + 1, offset + Len(originalLine) + 1)

generateDiffs(orig, sugg) == GenerateFrom(SplitLines(orig), SplitLines(sugg), 1, 0)

\* document.positionAt(offset) of the editor's document
documentPositionAt(buf, offset) == positionAt(Min(offset, Len(buf)), buf)

(***************************************************************************)
(* Handlers of ChatWebview.  Each action is one handler, run to its end.   *)
(* `editor` is what the handler reads from vscode.window.activeTextEditor. *)
(***************************************************************************)
\* updateDiffView(): the record list goes to the panel as it is at that moment
Posted(list) == [sent |-> TRUE, diffs |-> list]

\* the handler returned without calling updateDiffView
NoPost == [sent |-> FALSE, diffs |-> <<>>]

\* an editor test that never finds the editor missing
NoEditor_never(editor) == FALSE

\* if (!editor) return;
NoEditor(editor) == ~editor

Ran(op, editor, batch) ==
    /\ lastOp' = op
    /\ lastEditor' = editor
    /\ lastBatch' = batch
    /\ opCount' = opCount + 1

\* showDiffs(original, suggested), with the text of the document as original
\* an editor.edit call in flight: its replace calls, and the records of
\* currentDiffs the handler that awaits it still holds a reference to
PendingEdit(op, batch, ids) == [op |-> op, batch |-> batch, ids |-> ids]

\* this.currentDiffs = ...: the list is a new array of new records, the records
\* the waiting handlers hold are no longer in it
Detached(queue) == [k \in 1..Len(queue) |-> PendingEdit(queue[k].op, queue[k].batch, {})]

ShowDiffs ==
    /\ opCount < MaxOps
    /\ UNCHANGED <<genVars, mgrVars>>
    /\ edits' = Detached(edits)
    /\ \E raised \in BOOLEAN :
        /\ diffError' = raised
        /\ \E changes \in computeDiffs(buffer, suggested, raised) :
            /\ original' = buffer
            /\ currentDiffs' = changes
            /\ lastPost' = Posted(changes)
    /\ Ran("showDiffs", FALSE, <<>>)
    /\ UNCHANGED <<suggested, buffer, pendingChanges, currentChangeIndex>>

\* handleAcceptDiff(diffId); diffId = Len(currentDiffs) is an id without a record
HandleAcceptDiff ==
    /\ opCount < MaxOps
    /\ UNCHANGED <<genVars, edits, mgrVars>>
    /\ \E diffId \in 0..Len(currentDiffs), editor \in BOOLEAN :
        IF diffId >= Len(currentDiffs) \/ NoEditor(editor)
        THEN /\ Ran("acceptDiff", diffId < Len(currentDiffs) /\ editor, <<>>)
             /\ lastPost' = NoPost
             /\ UNCHANGED <<buffer, currentDiffs>>
        ELSE LET diff == currentDiffs[diffId + 1]
                 batch == <<Edit(diffId + 1, diff.range, diff.suggested)>>
             IN /\ buffer' = EditorEdit(buffer, batch)
                /\ currentDiffs' = SetStatus(currentDiffs, {diffId + 1}, "accepted")
                /\ lastPost' = Posted(currentDiffs')
                /\ Ran("acceptDiff", editor, batch)
    /\ UNCHANGED <<diffError, original, suggested, pendingChanges, currentChangeIndex>>

\* a reject handler that writes the records as accept-all does
RejectBatch_asAccept(list) == AcceptAllBatch(list)

\* the replace calls a reject handler issues for the list: it calls no editor
RejectBatch(list) == <<>>

\* handleRejectDiff(diffId)
HandleRejectDiff ==
    /\ opCount < MaxOps
    /\ UNCHANGED <<genVars, edits, mgrVars>>
    /\ \E diffId \in 0..Len(currentDiffs) :
        IF diffId >= Len(currentDiffs)
        THEN lastPost' = NoPost /\ UNCHANGED currentDiffs
        ELSE /\ currentDiffs' = SetStatus(currentDiffs, {diffId + 1}, "rejected")
             /\ lastPost' = Posted(currentDiffs')
    /\ buffer' = EditorEdit(buffer, RejectBatch(currentDiffs))
    /\ Ran("rejectDiff", FALSE, RejectBatch(currentDiffs))
    /\ UNCHANGED <<diffError, original, suggested, pendingChanges, currentChangeIndex>>

\* handleAcceptAllDiffs()
HandleAcceptAllDiffs ==
    /\ opCount < MaxOps
    /\ UNCHANGED <<genVars, edits, mgrVars>>
    /\ \E editor \in BOOLEAN :
        IF NoEditor(editor)
        THEN /\ Ran("acceptAllDiffs", FALSE, <<>>)
             /\ lastPost' = NoPost
             /\ UNCHANGED <<buffer, currentDiffs>>
        ELSE LET batch == AcceptAllBatch(currentDiffs)
             IN /\ buffer' = EditorEdit(buffer, batch)
                /\ currentDiffs' = SetStatus(currentDiffs, PendingIn(currentDiffs), "accepted")
                /\ lastPost' = Posted(currentDiffs')
                /\ Ran("acceptAllDiffs", editor, batch)
    /\ UNCHANGED <<diffError, original, suggested, pendingChanges, currentChangeIndex>>

\* handleRejectAllDiffs()
HandleRejectAllDiffs ==
    /\ opCount < MaxOps
    /\ UNCHANGED <<genVars, edits, mgrVars>>
    /\ currentDiffs' = SetStatus(currentDiffs, PendingIn(currentDiffs), "rejected")
    /\ lastPost' = Posted(currentDiffs')
    /\ buffer' = EditorEdit(buffer, RejectBatch(currentDiffs))
    /\ Ran("rejectAllDiffs", FALSE, RejectBatch(currentDiffs))
    /\ UNCHANGED <<diffError, original, suggested, pendingChanges, currentChangeIndex>>

\* handleO1ProResponse(response), the selection being the whole document
HandleO1ProResponse ==
    /\ opCount < MaxOps
    /\ UNCHANGED <<genVars, edits, mgrVars>>
    /\ \E editor \in BOOLEAN :
        /\ IF NoEditor(editor)
           THEN UNCHANGED pendingChanges
           ELSE LET diffs == generateDiffs(buffer, suggested)
                IN pendingChanges' =
                       [i \in 1..Len(diffs) |->
                           DiffChange(diffs[i].original, diffs[i].suggested,
                                      Range(documentPositionAt(buffer, diffs[i].startOffset),
                                            documentPositionAt(buffer, diffs[i].endOffset)),
                                      "pending")]
        /\ Ran("o1proResponse", editor, <<>>)
        /\ lastPost' = NoPost
    /\ UNCHANGED <<diffError, original, suggested, buffer, currentDiffs, currentChangeIndex>>

\* acceptAllChanges()
AcceptAllChanges ==
    /\ opCount < MaxOps
    /\ lastPost' = NoPost
    /\ UNCHANGED <<genVars, edits, mgrVars>>
    /\ \E editor \in BOOLEAN :
        IF NoEditor(editor)
        THEN /\ Ran("acceptAllChanges", FALSE, <<>>)
             /\ UNCHANGED <<buffer, pendingChanges, currentChangeIndex>>
        ELSE LET batch == AcceptAllChangesBatch(pendingChanges)
             IN /\ buffer' = EditorEdit(buffer, batch)
                /\ pendingChanges' = <<>>
                /\ currentChangeIndex' = 0
                /\ Ran("acceptAllChanges", editor, batch)
    /\ UNCHANGED <<diffError, original, suggested, currentDiffs>>

\* the cursor left where it is
NextIndex_stay(i) == i

\* this.currentChangeIndex++
NextIndex(i) == i + 1

\* acceptNextChange()
AcceptNextChange ==
    /\ opCount < MaxOps
    /\ lastPost' = NoPost
    /\ UNCHANGED <<genVars, edits, mgrVars>>
    /\ \E editor \in BOOLEAN :
        IF NoEditor(editor) \/ currentChangeIndex >= Len(pendingChanges)
        THEN /\ Ran("acceptNextChange", editor, <<>>)
             /\ UNCHANGED <<buffer, pendingChanges, currentChangeIndex>>
        ELSE LET currentChange == pendingChanges[currentChangeIndex + 1]
                 batch == <<Edit(currentChangeIndex + 1, currentChange.range,
                                 currentChange.suggested)>>
             IN /\ buffer' = EditorEdit(buffer, batch)
                /\ pendingChanges' = SetStatus(pendingChanges, {currentChangeIndex + 1}, "accepted")
                /\ currentChangeIndex' = NextIndex(currentChangeIndex)
                /\ Ran("acceptNextChange", editor, batch)
    /\ UNCHANGED <<diffError, original, suggested, currentDiffs>>

\* rejectChanges()
RejectChanges ==
    /\ opCount < MaxOps
    /\ lastPost' = NoPost
    /\ UNCHANGED <<genVars, edits, mgrVars>>
    /\ pendingChanges' = <<>>
    /\ currentChangeIndex' = 0
    /\ buffer' = EditorEdit(buffer, RejectBatch(pendingChanges))
    /\ Ran("rejectChanges", FALSE, RejectBatch(pendingChanges))
    /\ UNCHANGED <<diffError, original, suggested, currentDiffs>>

Init ==
    /\ original = <<>>
    /\ suggested \in Texts(MaxLen)
    /\ buffer \in Texts(MaxLen)
    /\ currentDiffs = <<>>
    /\ pendingChanges = <<>>
    /\ currentChangeIndex = 0
    /\ lastOp = "none"
    /\ lastEditor = FALSE
    /\ lastBatch = <<>>
    /\ opCount = 0
    /\ diffError = FALSE
    /\ lastPost = NoPost
    /\ edits = <<>>
    /\ GenIdle

Next ==
    \/ ShowDiffs
    \/ HandleAcceptDiff
    \/ HandleRejectDiff
    \/ HandleAcceptAllDiffs
    \/ HandleRejectAllDiffs
    \/ HandleO1ProResponse
    \/ AcceptAllChanges
    \/ AcceptNextChange
    \/ RejectChanges

Spec == Init /\ [][Next]_vars

(***************************************************************************)
(* Claims about the change sets.                                           *)
(***************************************************************************)
\* the step is a run of the handler op
Step(op) == lastOp' = op /\ opCount' = opCount + 1

Starts(batch) == [k \in 1..Len(batch) |-> batch[k].range.start]

C2_DescendingStart ==
    lastOp \in {"acceptAllDiffs", "acceptAllChanges"} =>
        \A k \in 1..(Len(lastBatch) - 1) :
            PosLeq(Starts(lastBatch)[k + 1], Starts(lastBatch)[k])

Permuted(list, p) == [i \in 1..Len(list) |-> list[p[i]]]

\* C3: order invariance.  For the records of the current change set and the
\* current document, the text that accept-all leaves is the same for every
\* order in which the records are stored, the edits being applied one after
\* the other in the order they are issued.
C3_OrderInvariance ==
    \A p \in Permutations(1..Len(currentDiffs)) :
        ApplySequential(buffer, AcceptAllBatch(Permuted(currentDiffs, p)))
            = ApplySequential(buffer, AcceptAllBatch(currentDiffs))

\* C4: record lifecycle.  Unless a fresh change set is computed, a status
\* changes only from pending: an accepted or rejected record keeps its status.
C4_Lifecycle ==
    [][~Step("showDiffs") =>
          \A i \in 1..Len(currentDiffs) :
              currentDiffs[i].status # "pending" =>
                  /\ i <= Len(currentDiffs')
                  /\ currentDiffs'[i].status = currentDiffs[i].status]_vars

InBatch(batch) == {batch[k].idx : k \in 1..Len(batch)}

\* C5: accept-all selects only pending records.  A record that is accepted or
\* rejected when an accept-all handler starts is not written to the document
\* by it and keeps its status under handleAcceptAllDiffs.
C5_OnlyPendingSelected ==
    [][/\ Step("acceptAllDiffs") =>
            \A i \in 1..Len(currentDiffs) :
                currentDiffs[i].status # "pending" =>
                    /\ i \notin InBatch(lastBatch')
                    /\ currentDiffs'[i].status = currentDiffs[i].status
       /\ Step("acceptAllChanges") =>
            \A i \in 1..Len(pendingChanges) :
                pendingChanges[i].status # "pending" => i \notin InBatch(lastBatch')]_vars

\* C6: bulk idempotence.  When the same accept-all handler runs twice in a
\* row, both times with an editor, the second run issues no replace call and
\* leaves the document, the statuses and the lists as the first run left them.
C6_BulkIdempotence ==
    [][\A op \in {"acceptAllDiffs", "acceptAllChanges"} :
          (lastOp = op /\ lastEditor /\ Step(op) /\ lastEditor') =>
              /\ lastBatch' = <<>>
              /\ buffer' = buffer
              /\ currentDiffs' = currentDiffs
              /\ pendingChanges' = pendingChanges]_vars

\* a second accept-all in a row has run with an editor on a change set of two
\* records, which the first one accepted and wrote
C6_Witness ==
    /\ opCount = 3
    /\ lastOp = "acceptAllDiffs"
    /\ lastEditor
    /\ lastBatch = <<>>
    /\ Len(currentDiffs) >= 2
    /\ \A i \in 1..Len(currentDiffs) : currentDiffs[i].status = "accepted"
    /\ buffer # original

\* C7: only accepted records reach the document.  A replace call is issued
\* for a record of currentDiffs only by the handler that moves it from
\* pending to accepted; nothing is written for a rejected record.
C7_WrittenOnlyWhenAccepted ==
    [][\A op \in {"acceptDiff", "acceptAllDiffs"} :
          Step(op) =>
              \A i \in InBatch(lastBatch') :
                  /\ currentDiffs[i].status = "pending"
                  /\ currentDiffs'[i].status = "accepted"]_vars

(***************************************************************************)
(* Generation: ModelManager.generateResponse and the generateResponse of   *)
(* the provider services, with their retry loop.                           *)
(*                                                                         *)
(* The message of an error is the set of the classification words it       *)
(* contains (lower-cased); a message that contains none of them is {} or   *)
(* holds a word no service lists.                                          *)
(***************************************************************************)
MAX_RETRIES == 3
RETRY_DELAY == 1000

\* the service the switch of ModelManager.generateResponse dispatches to
ServiceOf(m) ==
    CASE m \in {"gpt-3.5-turbo", "gpt-4"} -> "openai"
      [] m = "gemini-pro" -> "gemini"
      [] m = "claude-3-sonnet" -> "anthropic"
      [] m = "o1pro" -> "o1pro"
      [] OTHER -> "unsupported"

RetryServices == {"openai", "gemini", "anthropic"}

\* the retryableErrors list of shouldRetry of each service
retryableErrors(service) ==
    CASE service = "openai" ->
             {"rate_limit_exceeded", "internal_error", "timeout", "insufficient_quota", "server_error"}
      [] service = "anthropic" ->
             {"rate_limit_exceeded", "internal_error", "timeout", "insufficient_quota", "server_error",
              "overloaded"}
      [] service = "gemini" ->
             {"rate_limit_exceeded", "internal_error", "timeout", "unavailable"}
      [] OTHER -> {}

\* the messages a failed request can carry: one classification word, the word
\* of an authentication failure, or none ('Unknown error')
Messages ==
    {{}} \cup {{w} : w \in {"rate_limit_exceeded", "internal_error", "timeout", "insufficient_quota",
                            "server_error", "overloaded", "unavailable", "invalid_api_key"}}

\* shouldRetry of a loop that retries whatever the error is
shouldRetry_always(service, message) == TRUE

\* shouldRetry(error): retryableErrors.some(t => error.message.toLowerCase().includes(t))
shouldRetry(service, message) == \E errorType \in retryableErrors(service) : errorType \in message

\* the loop condition with <= in place of <
LoopContinues_inclusive(a) == a <= MAX_RETRIES

\* while (attempt < this.MAX_RETRIES)
LoopContinues(a) == a < MAX_RETRIES

\* a loop that does not count its attempts
NextAttempt_same(a) == a

\* attempt++
NextAttempt(a) == a + 1

\* a key test that lets a missing key through
apiKeyMissing_never(key) == FALSE

\* if (!apiKey) of the services
apiKeyMissing(key) == ~key

\* a ?? b with a dropped: the default whatever the override
Coalesce_defaultOnly(a, b) == b

\* a ?? b
Coalesce(a, b) == IF a.type = "undefined" THEN b ELSE a

\* the object literal of getModelConfig: config?.f ?? defaultConfig.f for
\* each of the five fields
getModelConfig(cfg, stored) == [f \in ConfigFields |-> Coalesce(cfg[f], stored[f])]

\* the typeof test of GeminiService.getModelConfig; the OpenAI and the
\* Anthropic service return the merged object untested
ConfigRejected(service, merged) ==
    service = "gemini" /\ \E f \in ConfigFields : merged[f].type # "number"

\* ModelManager.validateModel; hasValid...Key is true when a key is stored,
\* isO1ProSessionActive when the session is active
validateModel(m, key) ==
    CASE ServiceOf(m) \in RetryServices -> key
      [] ServiceOf(m) = "o1pro" -> key
      [] OTHER -> FALSE

Outcome(k, m) == [kind |-> k, message |-> m]

\* what one request can come back with: a well-formed response, a response
\* processResponse finds no text in, or an error with a message
Outcomes == {Outcome("ok", {}), Outcome("malformed", {})} \cup {Outcome("error", m) : m \in Messages}

Result(st, e, m) == [status |-> st, error |-> e, message |-> m]

Rejects(e, m) ==
    /\ result' = Result("rejected", e, m)
    /\ pc' = "done"

\* generateResponse of the service of model m, up to the loop
ServiceGenerateResponse(m, key, hasDefault) ==
    IF ServiceOf(m) = "o1pro"
    THEN IF ~key
         THEN Rejects("O1Pro session is not active", {})
         ELSE pc' = "o1pro" /\ UNCHANGED result
    ELSE IF apiKeyMissing(key)
         THEN Rejects("API key not configured", {})
         ELSE IF ~hasDefault
              THEN Rejects("Default configuration not found", {})
              ELSE IF ConfigRejected(ServiceOf(m), getModelConfig(config, settings[m]))
                   THEN Rejects("Invalid model configuration values", {})
                   ELSE pc' = "request" /\ UNCHANGED result

\* a call of generateResponse starts, at ModelManager or at a service, and
\* runs up to its first request
GenerateResponse ==
    /\ pc = "idle"
    /\ \E m \in Models, v \in {"manager", "service"}, key \in BOOLEAN, hasDefault \in BOOLEAN :
        /\ v = "service" => ServiceOf(m) # "unsupported"
        /\ model' = m
        /\ via' = v
        /\ apiKey' = key
        /\ defaultConfig' = hasDefault
        /\ IF v = "manager" /\ ~validateModel(m, key)
           THEN Rejects("Model is not properly configured", {})
           ELSE IF ServiceOf(m) = "unsupported"
                THEN Rejects("Unsupported model", {})
                ELSE ServiceGenerateResponse(m, key, hasDefault)
        /\ modelConfig' = IF pc' = "request" THEN getModelConfig(config, settings[m]) ELSE NoOverride
    /\ attempt' = 0
    /\ lastError' = <<>>
    /\ UNCHANGED <<requests, sleeps, config, settings, sent, callVars>>
    /\ UNCHANGED <<csVars, mgrVars>>

\* one pass of the loop body: makeRequest and what the loop does with its outcome
MakeRequest ==
    /\ pc = "request"
    /\ \E outcome \in Outcomes :
        /\ requests' = Append(requests, outcome)
        /\ sent' = Append(sent, modelConfig.maxTokens)
        /\ CASE outcome.kind = "ok" ->
                    /\ result' = Result("resolved", "", {})
                    /\ pc' = "done"
                    /\ UNCHANGED <<attempt, lastError, sleeps>>
             [] outcome.kind = "malformed" ->
                    /\ Rejects("Invalid response format", {})
                    /\ UNCHANGED <<attempt, lastError, sleeps>>
             [] OTHER ->
                    /\ lastError' = <<outcome.message>>
                    /\ IF shouldRetry(ServiceOf(model), outcome.message)
                       THEN /\ attempt' = NextAttempt(attempt)
                            /\ sleeps' = Append(sleeps, RETRY_DELAY * attempt')
                            /\ pc' = "sleep"
                            /\ UNCHANGED result
                       ELSE /\ Rejects("API error", outcome.message)
                            /\ UNCHANGED <<attempt, sleeps>>
    /\ UNCHANGED <<model, via, apiKey, defaultConfig, config, modelConfig, settings, callVars>>
    /\ UNCHANGED <<csVars, mgrVars>>

\* the timer of delay(ms) fires: `continue`, the loop condition, and the throw
\* after the loop
DelayElapsed ==
    /\ pc = "sleep"
    /\ IF LoopContinues(attempt)
       THEN pc' = "request" /\ UNCHANGED result
       ELSE Rejects("API error", lastError[1])
    /\ UNCHANGED <<model, via, apiKey, defaultConfig, attempt, lastError, requests, sleeps>>
    /\ UNCHANGED <<config, modelConfig, settings, sent, callVars>>
    /\ UNCHANGED <<csVars, mgrVars>>

\* O1ProService.generateResponse past its session test: the prompt goes to the
\* webview, if there is one, and the response is parsed or times out
O1ProRespond ==
    /\ pc = "o1pro"
    /\ \E webview \in BOOLEAN, response \in BOOLEAN :
        IF ~webview
        THEN Rejects("Webview not initialized", {}) /\ UNCHANGED requests
        ELSE /\ requests' = Append(requests, Outcome(IF response THEN "ok" ELSE "malformed", {}))
             /\ IF response
                THEN result' = Result("resolved", "", {}) /\ pc' = "done"
                ELSE Rejects("Failed to get response from O1Pro", {})
    /\ UNCHANGED <<model, via, apiKey, defaultConfig, attempt, lastError, sleeps>>
    /\ UNCHANGED <<config, modelConfig, settings, sent, callVars>>
    /\ UNCHANGED <<csVars, mgrVars>>

\* the change-set state at rest
CsIdle ==
    /\ original = <<>>
    /\ suggested = <<>>
    /\ buffer = <<>>
    /\ currentDiffs = <<>>
    /\ pendingChanges = <<>>
    /\ currentChangeIndex = 0
    /\ lastOp = "none"
    /\ lastEditor = FALSE
    /\ lastBatch = <<>>
    /\ opCount = 0
    /\ diffError = FALSE
    /\ lastPost = NoPost
    /\ edits = <<>>

InitGen == CsIdle /\ GenIdle

NextGen ==
    \/ GenerateResponse
    \/ MakeRequest
    \/ DelayElapsed
    \/ O1ProRespond

SpecGen == InitGen /\ [][NextGen]_vars

(***************************************************************************)
(* Claims about generation.                                                *)
(***************************************************************************)
\* the call went into the retry loop of one of the three provider services
InLoopService == pc # "idle" /\ ServiceOf(model) \in RetryServices

\* request i failed with an error whose message holds a word of the service's list
FailedRetryable(i) ==
    /\ requests[i].kind = "error"
    /\ requests[i].message \cap retryableErrors(ServiceOf(model)) # {}

\* C8: retry bound.  A call to the OpenAI, Anthropic or Gemini service never
\* makes more than MAX_RETRIES requests; when the call has ended and every
\* request of it failed with a retryable error it made exactly MAX_RETRIES
\* requests; and the k-th delay it sleeps is RETRY_DELAY * k, so the delays
\* are strictly increasing.
C8_RetryBound ==
    InLoopService =>
        /\ Len(requests) <= MAX_RETRIES
        /\ (pc = "done" /\ requests # <<>> /\ \A i \in 1..Len(requests) : FailedRetryable(i))
              => Len(requests) = MAX_RETRIES
        /\ \A k \in 1..Len(sleeps) : sleeps[k] = RETRY_DELAY * k
        /\ \A k \in 1..(Len(sleeps) - 1) : sleeps[k] < sleeps[k + 1]

\* a call whose requests all failed with a retryable error has ended
C8_Witness ==
    /\ InLoopService
    /\ pc = "done"
    /\ Len(requests) = MAX_RETRIES
    /\ \A i \in 1..Len(requests) : FailedRetryable(i)
    /\ Len(sleeps) >= 2
    /\ result.status = "rejected"

\* the first request failed with an error whose message holds no word of the
\* service's list
FirstFailedFatal ==
    /\ InLoopService
    /\ requests # <<>>
    /\ requests[1].kind = "error"
    /\ requests[1].message \cap retryableErrors(ServiceOf(model)) = {}

\* C9: fatal short-circuit.  When the first request fails with a
\* non-retryable error, the call ends there: it has made that one request,
\* slept no delay, and rejected with that error.
C9_FatalShortCircuit ==
    FirstFailedFatal =>
        /\ pc = "done"
        /\ Len(requests) = 1
        /\ sleeps = <<>>
        /\ result = Result("rejected", "API error", requests[1].message)

\* the provider reported an authentication failure on the first request
C9_Witness ==
    /\ FirstFailedFatal
    /\ requests[1].message = {"invalid_api_key"}
    /\ pc = "done"
    /\ result.status = "rejected"

\* the call was made without the credential of its model (for o1pro: without
\* an active session), or through ModelManager for a model it does not know
GateFails ==
    /\ pc # "idle"
    /\ \/ ~apiKey
       \/ via = "manager" /\ ServiceOf(model) = "unsupported"

\* C10: credential gate.  A call made without the credential, or through
\* ModelManager for a model that fails validateModel, has rejected without
\* sending a request, entering the retry loop or sleeping a delay.
C10_CredentialGate ==
    GateFails =>
        /\ pc = "done"
        /\ result.status = "rejected"
        /\ requests = <<>>
        /\ sleeps = <<>>
        /\ attempt = 0

\* a call made at a service itself without a key has been rejected
C10_Witness ==
    /\ GateFails
    /\ via = "service"
    /\ ServiceOf(model) \in RetryServices
    /\ ~apiKey
    /\ defaultConfig
    /\ result = Result("rejected", "API key not configured", {})

\* C11: linear backoff between attempts.  In a call to one of the three
\* provider services the k-th sleep lasts k * RETRY_DELAY; a sleep only
\* stands between two requests, so a call that has ended with n requests has
\* slept at most n - 1 times; and a call that ends after MAX_RETRIES failed
\* requests rejects with the error of the last request.
C11_SleepsBetweenAttempts ==
    InLoopService =>
        /\ \A k \in 1..Len(sleeps) : sleeps[k] = RETRY_DELAY * k
        /\ (pc = "done" /\ requests # <<>>) => Len(sleeps) <= Len(requests) - 1
        /\ (pc = "done" /\ Len(requests) = MAX_RETRIES /\ requests[MAX_RETRIES].kind = "error")
              => result = Result("rejected", "API error", requests[MAX_RETRIES].message)

\* the message of the error the loop caught last
LastMessage == lastError[1]

\* C12: one classification for every service.  An error the loop has caught
\* is classified the same by shouldRetry of the OpenAI, the Anthropic and the
\* Gemini service.
C12_SameClassification ==
    lastError # <<>> =>
        \A s1 \in RetryServices, s2 \in RetryServices :
            shouldRetry(s1, LastMessage) = shouldRetry(s2, LastMessage)

(***************************************************************************)
(* Generation with a caller's override of the configuration.               *)
(***************************************************************************)
\* a token count above the limit of every model
OverLimit == 300000

\* the `config` arguments of the calls: each field absent or supplied;
\* temperature supplied as 0 or as a string, maxTokens as 1 or above the limit
Overrides ==
    {[f \in ConfigFields |->
         CASE f = "temperature" -> t
           [] f = "maxTokens" -> mt
           [] f = "topP" -> tp
           [] f = "frequencyPenalty" -> fp
           [] OTHER -> pp] :
       t \in {Undefined, Num(0), Str}, mt \in {Undefined, Num(1), Num(OverLimit)},
       tp \in {Undefined, Num(5)}, fp \in {Undefined, Num(5)}, pp \in {Undefined, Num(5)}}

InitCfg ==
    /\ CsIdle
    /\ GenRest
    /\ config \in Overrides

SpecCfg == InitCfg /\ [][NextGen]_vars

\* getModelConfig has returned for the call
Resolved == pc \in {"request", "sleep"} \/ requests # <<>>

\* C13: config resolution.  Each of the five fields of the resolved
\* configuration holds the caller's value when `config` supplies the field
\* and the stored default of the model when it does not, and the stored
\* defaults are what they were before the call.
C13_ConfigResolution ==
    /\ settings = [m \in Models |-> DEFAULT_MODEL_CONFIGS(m)]
    /\ (Resolved /\ InLoopService) =>
           \A f \in ConfigFields :
               modelConfig[f] = IF config[f].type # "undefined" THEN config[f] ELSE settings[model][f]

\* a call with temperature 0 and maxTokens 1 supplied and the other fields
\* absent has sent a request
C13_Witness ==
    /\ InLoopService
    /\ sent # <<>>
    /\ config["temperature"] = Num(0)
    /\ config["maxTokens"] = Num(1)
    /\ config["topP"] = Undefined
    /\ modelConfig["temperature"] = Num(0)
    /\ modelConfig["topP"] = Num(10)

\* the configuration the call resolves to: override over stored default
Merged == [f \in ConfigFields |-> IF config[f].type # "undefined" THEN config[f] ELSE settings[model][f]]

\* a field of cfg is not a number, or its maxTokens is above the limit of model m
InvalidConfig(m, cfg) ==
    \/ \E f \in ConfigFields : cfg[f].type # "number"
    \/ cfg["maxTokens"].v > MODEL_TOKEN_LIMITS(m)

\* C14: config validation.  A call to a provider service (key and default
\* configuration present) whose resolved configuration has a non-numeric
\* field or a maxTokens above the model's limit has rejected without sending
\* a request or sleeping.
C14_ConfigValidation ==
    (InLoopService /\ apiKey /\ defaultConfig /\ InvalidConfig(model, Merged)) =>
        /\ pc = "done"
        /\ result.status = "rejected"
        /\ requests = <<>>
        /\ sleeps = <<>>

\* C15: maxTokens ceiling.  A call that has sent a request with a max_tokens
\* above MODEL_TOKEN_LIMITS of its model does not succeed: when it ends, it
\* has rejected.
C15_MaxTokensCeiling ==
    (pc = "done" /\ \E i \in 1..Len(sent) : sent[i].type = "number" /\ sent[i].v > MODEL_TOKEN_LIMITS(model))
        => result.status = "rejected"

(***************************************************************************)
(* Claims about the diff engine.                                           *)
(***************************************************************************)
\* showDiffs ran last and its diff computation raised no error
Diffed == lastOp = "showDiffs" /\ ~diffError

\* C16: diff of identical inputs.  showDiffs(X, X) leaves an empty change
\* set, for the empty X and every other.
C16_IdenticalInputs ==
    (Diffed /\ original = suggested) => currentDiffs = <<>>

\* showDiffs ran on two equal texts of two characters
C16_Witness ==
    /\ Diffed
    /\ original = suggested
    /\ Len(original) = 2
    /\ currentDiffs = <<>>

\* the number of maximal runs of consecutive non-equal segments of a stream
RECURSIVE Runs(_, _)
Runs(diffs, inRun) ==
    IF diffs = <<>> THEN 0
    ELSE IF Head(diffs).op = 0 THEN Runs(Tail(diffs), FALSE)
         ELSE (IF inRun THEN 0 ELSE 1) + Runs(Tail(diffs), TRUE)

\* C17: one record per changed region.  The change set showDiffs leaves has
\* as many records as the operation stream it was converted from has maximal
\* runs of non-equal segments: a delete and the insert that follows it make
\* one record.
C17_OneRecordPerRegion ==
    Diffed =>
        \E d \in diff_main(original, suggested) :
            /\ currentDiffs = convertToRangedDiffs(d, original)
            /\ Len(currentDiffs) = Runs(d, FALSE)

\* the position of the end of a text
EndOf(text) == Position(NewlinesIn(text), Len(text) - LastBreak(Len(text), text))

\* C18: degenerate diffs.  For an empty original and a non-empty suggestion
\* the change set is one record with empty original text and the zero-width
\* range at (0,0); for a non-empty original and an empty suggestion it is one
\* record with empty suggested text whose range spans the whole original.
C18_DegenerateDiffs ==
    /\ (Diffed /\ original = <<>> /\ suggested # <<>>) =>
           currentDiffs = <<DiffChange(<<>>, suggested, Range(Position(0, 0), Position(0, 0)), "pending")>>
    /\ (Diffed /\ original # <<>> /\ suggested = <<>>) =>
           currentDiffs = <<DiffChange(original, <<>>, Range(Position(0, 0), EndOf(original)), "pending")>>

\* showDiffs ran on a two-line original and an empty suggestion
C18_Witness ==
    /\ Diffed
    /\ suggested = <<>>
    /\ NewlinesIn(original) = 1
    /\ Len(currentDiffs) = 1
    /\ currentDiffs[1].range.end.line = 1

\* C19: diff failure fallback.  When the diff computation of showDiffs raised
\* an error on differing texts, the change set is the single record that
\* replaces the whole original with the whole suggestion.
C19_FailureFallback ==
    (lastOp = "showDiffs" /\ diffError /\ original # suggested) =>
        currentDiffs = <<DiffChange(original, suggested, Range(Position(0, 0), EndOf(original)), "pending")>>

\* the records of a change set are in document order and do not overlap
Ordered(list) ==
    /\ \A k \in 1..Len(list) : PosLeq(list[k].range.start, list[k].range.end)
    /\ \A k \in 1..(Len(list) - 1) : PosLeq(list[k].range.end, list[k + 1].range.start)

\* C20: range invariant at creation.  The records of currentDiffs and those
\* of pendingChanges are in document order, each ending at or before the
\* start of the next.
C20_RangeInvariant == Ordered(currentDiffs) /\ Ordered(pendingChanges)

\* the texts positionAt is applied to
PositionedTexts == {buffer, original, suggested}

\* C21: offset to position.  For every offset from 0 to the length of a text,
\* positionAt gives as line the number of line breaks before the offset and
\* as column the number of characters from the last line break before the
\* offset (or the start of the text) to the offset; a larger offset never
\* gives an earlier position.
C21_OffsetToPosition ==
    \A text \in PositionedTexts :
        /\ \A o \in 0..Len(text) :
               positionAt(o, text) = Position(NewlinesIn(Take(text, o)), o - LastBreak(o, text))
        /\ \A o1 \in 0..Len(text), o2 \in 0..Len(text) :
               o1 <= o2 => PosLeq(positionAt(o1, text), positionAt(o2, text))

\* showDiffs has placed a record on the second line of its original
C21_Witness ==
    /\ Diffed
    /\ NewlinesIn(original) >= 1
    /\ \E k \in 1..Len(currentDiffs) :
           currentDiffs[k].range.start = Position(1, 0) /\ currentDiffs[k].status = "pending"

(***************************************************************************)
(* Claims about the handlers.                                              *)
(***************************************************************************)
\* C22: single-step cursor.  acceptNextChange, run with an editor and the
\* cursor inside the list, writes the record at currentChangeIndex, accepts
\* it, leaves the other records alone and advances the cursor by one; run
\* with the cursor at or past the end it changes neither the document, nor a
\* status, nor the cursor.
C22_SingleStepCursor ==
    [][Step("acceptNextChange") =>
          /\ (currentChangeIndex < Len(pendingChanges) /\ lastEditor') =>
                 /\ lastBatch' = <<Edit(currentChangeIndex + 1,
                                        pendingChanges[currentChangeIndex + 1].range,
                                        pendingChanges[currentChangeIndex + 1].suggested)>>
                 /\ currentChangeIndex' = currentChangeIndex + 1
                 /\ pendingChanges' = SetStatus(pendingChanges, {currentChangeIndex + 1}, "accepted")
          /\ currentChangeIndex >= Len(pendingChanges) =>
                 /\ lastBatch' = <<>>
                 /\ buffer' = buffer
                 /\ pendingChanges' = pendingChanges
                 /\ currentChangeIndex' = currentChangeIndex]_vars

\* acceptNextChange has run with an editor and the cursor at the end of a
\* list whose only record it accepted before
C22_Witness ==
    /\ lastOp = "acceptNextChange"
    /\ lastEditor
    /\ lastBatch = <<>>
    /\ Len(pendingChanges) = 1
    /\ currentChangeIndex = 1
    /\ pendingChanges[1].status = "accepted"
    /\ opCount = 3

\* C23: presentation sync after every operation.  Each run of the handler
\* of an acceptDiff, rejectDiff, acceptAllDiffs or rejectAllDiffs message ends
\* by posting the record list, as it then is, to the panel.
C23_PresentationSync ==
    [][\A op \in {"acceptDiff", "rejectDiff", "acceptAllDiffs", "rejectAllDiffs"} :
          Step(op) => lastPost' = Posted(currentDiffs')]_vars

\* C24: no editor is a no-op.  A run of handleAcceptDiff,
\* handleAcceptAllDiffs, acceptNextChange or acceptAllChanges that finds no
\* active editor issues no replace call and leaves the document, both record
\* lists with their statuses, and the cursor as they were.
C24_NoEditorNoOp ==
    [][\A op \in {"acceptDiff", "acceptAllDiffs", "acceptNextChange", "acceptAllChanges"} :
          (Step(op) /\ ~lastEditor') =>
              /\ lastBatch' = <<>>
              /\ buffer' = buffer
              /\ currentDiffs' = currentDiffs
              /\ pendingChanges' = pendingChanges
              /\ currentChangeIndex' = currentChangeIndex]_vars

\* acceptAllChanges has run without an editor on a list with a pending record
C24_Witness ==
    /\ lastOp = "acceptAllChanges"
    /\ ~lastEditor
    /\ pendingChanges # <<>>
    /\ pendingChanges[1].status = "pending"
    /\ buffer # suggested

\* C25: rejecting never touches the document.  handleRejectDiff,
\* handleRejectAllDiffs and rejectChanges issue no replace call and leave the
\* document as it was.
C25_RejectKeepsBuffer ==
    [][\A op \in {"rejectDiff", "rejectAllDiffs", "rejectChanges"} :
          Step(op) => (lastBatch' = <<>> /\ buffer' = buffer)]_vars

\* the single insertion record of an empty original has been rejected and
\* the document is still empty
C25_Witness ==
    /\ lastOp = "rejectDiff"
    /\ original = <<>>
    /\ suggested # <<>>
    /\ Len(currentDiffs) = 1
    /\ currentDiffs[1].status = "rejected"
    /\ currentDiffs[1].suggested = suggested
    /\ buffer = <<>>

\* C28: the session is busy while a record is pending.  showDiffs does not
\* replace currentDiffs while one of its records is pending, and
\* handleO1ProResponse does not replace pendingChanges while one of its
\* records is pending: the new suggestion is rejected or queued.
C28_SessionBusy ==
    [][/\ (Step("showDiffs") /\ PendingIn(currentDiffs) # {}) => currentDiffs' = currentDiffs
       /\ (Step("o1proResponse") /\ PendingIn(pendingChanges) # {})
              => pendingChanges' = pendingChanges]_vars

\* C30: a record is applied at most once.  Whatever accept messages
\* arrive for a change set, no handler issues the replace call of a record
\* that was issued before, that is, of a record that is already accepted.
C30_AppliedAtMostOnce ==
    [][/\ \A op \in {"acceptDiff", "acceptAllDiffs"} :
              Step(op) => \A i \in InBatch(lastBatch') : currentDiffs[i].status # "accepted"
       /\ \A op \in {"acceptNextChange", "acceptAllChanges"} :
              Step(op) => \A i \in InBatch(lastBatch') : pendingChanges[i].status # "accepted"]_vars

(***************************************************************************)
(* The diff message handlers as the panel starts them: onDidReceiveMessage *)
(* calls handleDiffMessage without awaiting it, so a handler that awaits   *)
(* editor.edit is suspended there while the handlers of later messages     *)
(* run.  The callback of editor.edit runs when edit is called; the editor  *)
(* applies the edits later, in the order of the calls.  A handler without  *)
(* an editor.edit call runs to its updateDiffView in one step.             *)
(***************************************************************************)
\* handleAcceptDiff(diffId) up to `await editor.edit(...)`
BeginAcceptDiff ==
    /\ opCount < MaxOps
    /\ UNCHANGED <<genVars, mgrVars>>
    /\ \E diffId \in 0..Len(currentDiffs), editor \in BOOLEAN :
        IF diffId >= Len(currentDiffs) \/ NoEditor(editor)
        THEN /\ Ran("acceptDiff", diffId < Len(currentDiffs) /\ editor, <<>>)
             /\ UNCHANGED edits
        ELSE LET diff == currentDiffs[diffId + 1]
                 batch == <<Edit(diffId + 1, diff.range, diff.suggested)>>
             IN /\ edits' = Append(edits, PendingEdit("acceptDiff", batch, {diffId + 1}))
                /\ Ran("acceptDiff", editor, batch)
    /\ lastPost' = NoPost
    /\ UNCHANGED <<diffError, original, suggested, buffer, currentDiffs,
                   pendingChanges, currentChangeIndex>>

\* handleAcceptAllDiffs() up to `await editor.edit(...)`: the callback has
\* issued the replace calls and written the statuses
BeginAcceptAllDiffs ==
    /\ opCount < MaxOps
    /\ UNCHANGED <<genVars, mgrVars>>
    /\ \E editor \in BOOLEAN :
        IF NoEditor(editor)
        THEN /\ Ran("acceptAllDiffs", editor, <<>>)
             /\ UNCHANGED <<currentDiffs, edits>>
        ELSE LET batch == AcceptAllBatch(currentDiffs)
             IN /\ currentDiffs' = SetStatus(currentDiffs, PendingIn(currentDiffs), "accepted")
                /\ edits' = Append(edits, PendingEdit("acceptAllDiffs", batch, PendingIn(currentDiffs)))
                /\ Ran("acceptAllDiffs", editor, batch)
    /\ lastPost' = NoPost
    /\ UNCHANGED <<diffError, original, suggested, buffer, pendingChanges, currentChangeIndex>>

\* the promise of the oldest editor.edit call resolves, with true when the
\* editor applied the edits and with false when it did not (the document
\* changed under the call, the editor was closed); the handler that awaits it
\* drops that value and resumes: handleAcceptDiff writes the status, both
\* call updateDiffView
EditApplied ==
    /\ edits # <<>>
    /\ UNCHANGED <<genVars, mgrVars>>
    /\ \E applied \in BOOLEAN :
        LET e == Head(edits)
        IN /\ buffer' = IF applied THEN EditorEdit(buffer, e.batch) ELSE buffer
           /\ currentDiffs' = IF e.op = "acceptDiff"
                              THEN SetStatus(currentDiffs, e.ids, "accepted")
                              ELSE currentDiffs
           /\ lastBatch' = e.batch
           /\ lastOp' = IF applied THEN "editApplied" ELSE "editRefused"
    /\ edits' = Tail(edits)
    /\ lastPost' = Posted(currentDiffs')
    /\ lastEditor' = TRUE
    /\ UNCHANGED <<opCount, diffError, original, suggested, pendingChanges, currentChangeIndex>>

NextAsync ==
    \/ ShowDiffs
    \/ BeginAcceptDiff
    \/ BeginAcceptAllDiffs
    \/ HandleRejectDiff
    \/ HandleRejectAllDiffs
    \/ EditApplied

SpecAsync == Init /\ [][NextAsync]_vars

\* the step posts an updateDiffs message
Posts == lastPost'.sent /\ (opCount' # opCount \/ edits' # edits)

\* C26: the display sees a batch as a whole.  No updateDiffs message shows
\* a record of an accept batch as accepted while the edit of that batch is
\* not applied yet, and the document changes only by the oldest batch in
\* flight, applied whole.
C26_AtomicBatch ==
    [][/\ Posts => \A k \in 1..Len(edits') : \A i \in edits'[k].ids :
                       lastPost'.diffs[i].status # "accepted"
       /\ buffer' # buffer => (edits # <<>> /\ buffer' = EditorEdit(buffer, Head(edits).batch))]_vars

(***************************************************************************)
(* Several generateResponse calls on one service.  The services are        *)
(* singletons and a caller need not wait for an earlier call before it     *)
(* makes the next; each call has its own locals and its own promise.  A    *)
(* request is sent in one step and settles in another, when the provider   *)
(* answers; the requests and the delay timers carry no deadline.           *)
(***************************************************************************)
MaxCalls == 2

\* the locals of one call, and what its promise settled with
Call(p, a, e, r) == [pc |-> p, attempt |-> a, lastError |-> e, result |-> r]

\* the promise of a call that has not settled
Unsettled == Result("none", "", {})

\* the call is past its gates and its promise has not settled
Outstanding(c) == c.pc \in {"request", "waiting", "sleep"}

\* generateResponse of the service of `model`, entered at v, up to the loop
StartedCall(v, key, hasDefault) ==
    IF v = "manager" /\ ~validateModel(model, key)
    THEN Call("done", 0, <<>>, Result("rejected", "Model is not properly configured", {}))
    ELSE IF apiKeyMissing(key)
         THEN Call("done", 0, <<>>, Result("rejected", "API key not configured", {}))
         ELSE IF ~hasDefault
              THEN Call("done", 0, <<>>, Result("rejected", "Default configuration not found", {}))
              ELSE IF ConfigRejected(ServiceOf(model), getModelConfig(config, settings[model]))
                   THEN Call("done", 0, <<>>, Result("rejected", "Invalid model configuration values", {}))
                   ELSE Call("request", 0, <<>>, Unsettled)

\* a caller calls generateResponse, whatever the earlier calls are doing
CallGenerateResponse ==
    /\ Len(calls) < MaxCalls
    /\ \E v \in {"manager", "service"}, key \in BOOLEAN, hasDefault \in BOOLEAN :
        calls' = Append(calls, StartedCall(v, key, hasDefault))
    /\ UNCHANGED <<abortController, soloVars, csVars, mgrVars>>

\* makeRequest of call i up to `await fetch(...)`: the OpenAI and the
\* Anthropic service store a new AbortController, whatever the one stored
CallMakeRequest ==
    /\ \E i \in 1..Len(calls) :
        /\ calls[i].pc = "request"
        /\ calls' = [calls EXCEPT ![i].pc = "waiting"]
        /\ abortController' = IF ServiceOf(model) = "gemini" THEN abortController ELSE i
    /\ UNCHANGED <<soloVars, csVars, mgrVars>>

\* what the loop body of a call does with the outcome of its request
Settled(c, outcome) ==
    CASE outcome.kind = "ok" -> Call("done", c.attempt, c.lastError, Result("resolved", "", {}))
      [] outcome.kind = "malformed" ->
             Call("done", c.attempt, c.lastError, Result("rejected", "Invalid response format", {}))
      [] OTHER ->
             IF shouldRetry(ServiceOf(model), outcome.message)
             THEN Call("sleep", NextAttempt(c.attempt), <<outcome.message>>, c.result)
             ELSE Call("done", c.attempt, <<outcome.message>>,
                       Result("rejected", "API error", outcome.message))

\* the provider answers the request of call i, or the transport gives it up
\* with an error, and the call resumes
ProviderAnswers ==
    /\ \E i \in 1..Len(calls), outcome \in Outcomes :
        /\ calls[i].pc = "waiting"
        /\ calls' = [calls EXCEPT ![i] = Settled(calls[i], outcome)]
    /\ UNCHANGED <<abortController, soloVars, csVars, mgrVars>>

\* the delay timer of call i fires: `continue`, the loop condition, and the
\* throw after the loop
CallDelayElapsed ==
    /\ \E i \in 1..Len(calls) :
        /\ calls[i].pc = "sleep"
        /\ calls' = [calls EXCEPT ![i] =
                        IF LoopContinues(calls[i].attempt)
                        THEN Call("request", calls[i].attempt, calls[i].lastError, calls[i].result)
                        ELSE Call("done", calls[i].attempt, calls[i].lastError,
                                  Result("rejected", "API error", calls[i].lastError[1]))]
    /\ UNCHANGED <<abortController, soloVars, csVars, mgrVars>>

\* what dispose() does to one call: the fetch that holds the stored
\* AbortController rejects with an abort error, which carries no retryable
\* word; the timer of a delay is cleared, and its promise is never resolved
Disposed(c, holdsController) ==
    CASE c.pc = "sleep" -> Call("cancelled", c.attempt, c.lastError, c.result)
      [] c.pc = "waiting" /\ holdsController -> Settled(c, Outcome("error", {}))
      [] OTHER -> c

\* dispose() of the service, whatever its calls are doing
Dispose ==
    /\ calls' = [i \in 1..Len(calls) |-> Disposed(calls[i], i = abortController)]
    /\ UNCHANGED <<abortController, soloVars, csVars, mgrVars>>

\* the service of a model with a retry loop, no call made on it yet
InitCalls ==
    /\ CsIdle
    /\ model \in {m \in Models : ServiceOf(m) \in RetryServices}
    /\ via = "service"
    /\ apiKey = FALSE
    /\ defaultConfig = TRUE
    /\ pc = "idle"
    /\ attempt = 0
    /\ lastError = <<>>
    /\ requests = <<>>
    /\ sleeps = <<>>
    /\ result = "none"
    /\ config = NoOverride
    /\ modelConfig = NoOverride
    /\ settings = [m \in Models |-> DEFAULT_MODEL_CONFIGS(m)]
    /\ sent = <<>>
    /\ calls = <<>>
    /\ abortController = 0
    /\ MgrIdle

NextCalls ==
    \/ CallGenerateResponse
    \/ CallMakeRequest
    \/ ProviderAnswers
    \/ CallDelayElapsed
    \/ Dispose

SpecCalls == InitCalls /\ [][NextCalls]_vars

\* C27: the last request wins.  When the promise of a call settles after a
\* later call has started on the service, nothing is delivered for it: only
\* the call started last delivers an outcome.
C27_LastRequestWins ==
    [][\A i \in 1..Len(calls) :
          (Outstanding(calls[i]) /\ Len(calls) > i /\ calls'[i].pc = "done")
              => calls'[i].result = Unsettled]_vars

\* the steps of the service itself are taken when they can be; nothing makes
\* a provider answer, and no caller has to call
SpecCallsLive == SpecCalls /\ WF_vars(CallMakeRequest) /\ WF_vars(CallDelayElapsed)

\* C29: a request times out.  A call that waits for the answer to a request
\* does not wait forever: the request fails, at the latest with a timeout
\* error, and the call goes on to retry or to reject.
C29_RequestTimeout ==
    \A i \in 1..MaxCalls :
        (Len(calls) >= i /\ calls[i].pc = "waiting") ~> (Len(calls) >= i /\ calls[i].pc # "waiting")

(***************************************************************************)
(* Claims about the outcome of an edit.                                    *)
(***************************************************************************)
\* the step settles the oldest editor.edit call with false
Refused == edits # <<>> /\ edits' = Tail(edits) /\ lastOp' = "editRefused"

\* C31: accepted implies applied.  When the editor reports that the edit of
\* an accept was not applied, no record of that edit is accepted afterwards.
C31_AcceptedImpliesApplied ==
    [][Refused => \A i \in Head(edits).ids : currentDiffs'[i].status # "accepted"]_vars

(***************************************************************************)
(* Claims about the cursor of pendingChanges.                              *)
(***************************************************************************)
\* the step ends with showCurrentDiff reading pendingChanges[currentChangeIndex]:
\* handleO1ProResponse with an editor calls it, and it returns early on an
\* empty list
ReadsCurrent == Step("o1proResponse") /\ lastEditor' /\ pendingChanges' # <<>>

\* C32: the cursor is within bounds.  Whenever showCurrentDiff reads the
\* record at the cursor of a non-empty pendingChanges the cursor is an index
\* of the list, and a newly installed change set has its cursor at 0.
C32_CursorWithinBounds ==
    [][ReadsCurrent => (/\ 0 <= currentChangeIndex'
                        /\ currentChangeIndex' < Len(pendingChanges')
                        /\ currentChangeIndex' = 0)]_vars

(***************************************************************************)
(* Claims about the retry loop under mixed outcomes.                       *)
(***************************************************************************)
\* request k of the call failed with an error the service retries
RetryableAt(k) ==
    requests[k].kind = "error" /\ shouldRetry(ServiceOf(model), requests[k].message)

\* C33: the retry loop under mixed outcomes.  A call makes at most
\* MAX_RETRIES requests; every request but the last failed with a retryable
\* error, so nothing is requested after a well-formed response or after a
\* failure that is not retryable; and a last request that failed without
\* being retryable (a malformed body included) has rejected the call with
\* no sleep after it.
C33_MixedOutcomes ==
    ServiceOf(model) \in RetryServices =>
        /\ Len(requests) <= MAX_RETRIES
        /\ \A k \in 1..(Len(requests) - 1) : RetryableAt(k)
        /\ (requests # <<>> /\ requests[Len(requests)].kind # "ok" /\ ~RetryableAt(Len(requests)))
               => (/\ pc = "done"
                   /\ result.status = "rejected"
                   /\ Len(sleeps) = Len(requests) - 1)
        /\ (requests # <<>> /\ requests[Len(requests)].kind = "ok")
               => (pc = "done" /\ result.status = "resolved")

\* a retryable failure and then a malformed body: the call has rejected
\* after one sleep
C33_Witness ==
    /\ ServiceOf(model) \in RetryServices
    /\ Len(requests) = 2
    /\ RetryableAt(1)
    /\ requests[2].kind = "malformed"
    /\ pc = "done"
    /\ result.status = "rejected"
    /\ Len(sleeps) = 1

(***************************************************************************)
(* Claims about the end of a call.                                         *)
(***************************************************************************)
\* as SpecCallsLive, with a provider that answers every request
SpecCallsAnswered == SpecCallsLive /\ WF_vars(ProviderAnswers)

\* C34: generation always settles.  Every call whose requests are all
\* answered resolves or rejects in the end, also when dispose() is called
\* while the call sleeps in a delay.
C34_AlwaysSettles ==
    \A i \in 1..MaxCalls :
        (Len(calls) >= i) ~> (Len(calls) >= i /\ calls[i].pc = "done")

(***************************************************************************)
(* Claims about the content of a record.                                   *)
(***************************************************************************)
\* the characters of text between the positions of range r
Between(text, r) ==
    SubSeq(text, offsetAt(text, r.start) + 1, offsetAt(text, r.end))

\* C35: the content of a record.  Every record computeDiffs returns is
\* pending, is an insertion (no original text, a range of width zero) or a
\* deletion (no suggested text), and its original text is what `original`
\* holds between the start and the end of its range.
C35_RecordContent ==
    Diffed =>
        \A i \in 1..Len(currentDiffs) :
            LET d == currentDiffs[i]
            IN /\ d.status = "pending"
               /\ \/ d.original = <<>> /\ d.range.start = d.range.end
                  \/ d.suggested = <<>>
               /\ d.original = Between(original, d.range)

\* a change set that holds a deletion across a line break and an insertion
C35_Witness ==
    /\ Diffed
    /\ \E i \in 1..Len(currentDiffs) :
           /\ currentDiffs[i].suggested = <<>>
           /\ NL \in {currentDiffs[i].original[k] : k \in 1..Len(currentDiffs[i].original)}
           /\ currentDiffs[i].range.end.line > currentDiffs[i].range.start.line
    /\ \E i \in 1..Len(currentDiffs) : currentDiffs[i].original = <<>>

(***************************************************************************)
(* ConfigManager and SyncManager.  The default model is held in the field  *)
(* currentModel and persisted under 'defaultModel'; the O1Pro session      *)
(* state and the Gemini key are secrets.  A write to the global state or   *)
(* to the secret storage is awaited and can be rejected by the host.       *)
(***************************************************************************)
MaxTimers == 2

\* the AIModel type
AIModels == {m \in Models : ServiceOf(m) # "unsupported"}

\* how a call of updateDefaultModel left the field and the persisted value
Updated(cur, saved, failed) == [currentModel |-> cur, defaultModel |-> saved, failed |-> failed]

\* updateDefaultModel(m): the key and session tests, then the assignment of
\* the field, then the awaited globalState.update, which `written` tells
\* the outcome of
updateDefaultModel(cur, saved, m, key, session, written) ==
    IF (m = "gemini-pro" /\ ~key) \/ (m = "o1pro" /\ ~session)
    THEN Updated(cur, saved, TRUE)
    ELSE IF written THEN Updated(m, m, FALSE) ELSE Updated(m, saved, TRUE)

MgrRan(op, update) == mgrOp' = [op |-> op, update |-> update]

UpdateOutcome(u) == IF u.failed THEN "failed" ELSE "ok"

\* updateDefaultModel(m), called from outside
UpdateDefaultModel ==
    /\ \E m \in AIModels, written \in BOOLEAN :
        LET u == updateDefaultModel(currentModel, defaultModel, m, geminiKey, o1proSession, written)
        IN /\ currentModel' = u.currentModel
           /\ defaultModel' = u.defaultModel
           /\ MgrRan("updateDefaultModel", UpdateOutcome(u))
    /\ UNCHANGED <<o1proSession, geminiKey, syncInterval, timers, csVars, genVars>>

\* updateSettings(settings): of the fields of settings, defaultModel (given
\* or not) and, after it, geminiApiKey (given or not) touch this state
UpdateSettings ==
    /\ \E m \in AIModels \cup {"undefined"}, key \in BOOLEAN, written \in BOOLEAN :
        IF m = "undefined"
        THEN /\ geminiKey' = (geminiKey \/ key)
             /\ MgrRan("updateSettings", "none")
             /\ UNCHANGED <<currentModel, defaultModel>>
        ELSE LET u == updateDefaultModel(currentModel, defaultModel, m, geminiKey, o1proSession,
                                         written)
             IN /\ currentModel' = u.currentModel
                /\ defaultModel' = u.defaultModel
                /\ geminiKey' = IF u.failed THEN geminiKey ELSE (geminiKey \/ key)
                /\ MgrRan("updateSettings", UpdateOutcome(u))
    /\ UNCHANGED <<o1proSession, syncInterval, timers, csVars, genVars>>

\* setO1ProSessionState(active): the secret is stored, unless the storage
\* rejects the write, and the default model is moved to or away from o1pro
SetO1ProSessionState ==
    /\ \E active \in BOOLEAN, stored \in BOOLEAN, written \in BOOLEAN :
        IF ~stored
        THEN /\ MgrRan("setO1ProSessionState", "none")
             /\ UNCHANGED <<o1proSession, currentModel, defaultModel>>
        ELSE /\ o1proSession' = active
             /\ IF (active /\ currentModel # "o1pro") \/ (~active /\ currentModel = "o1pro")
                THEN LET u == updateDefaultModel(currentModel, defaultModel,
                                                 IF active THEN "o1pro" ELSE "gpt-3.5-turbo",
                                                 geminiKey, active, written)
                     IN /\ currentModel' = u.currentModel
                        /\ defaultModel' = u.defaultModel
                        /\ MgrRan("setO1ProSessionState", UpdateOutcome(u))
                ELSE /\ MgrRan("setO1ProSessionState", "none")
                     /\ UNCHANGED <<currentModel, defaultModel>>
    /\ UNCHANGED <<geminiKey, syncInterval, timers, csVars, genVars>>

\* initializeConfig(): a stored Gemini key found invalid is deleted; without
\* a session o1pro is given up; then the field takes the persisted default.
\* An updateDefaultModel that throws ends the function in its catch.
InitializeConfig ==
    /\ \E isValid \in BOOLEAN, written \in BOOLEAN :
        /\ geminiKey' = (geminiKey /\ isValid)
        /\ IF ~o1proSession /\ currentModel = "o1pro"
           THEN LET u == updateDefaultModel("gpt-3.5-turbo", defaultModel, "gpt-3.5-turbo",
                                            geminiKey', o1proSession, written)
                IN /\ currentModel' = u.currentModel
                   /\ defaultModel' = u.defaultModel
                   /\ MgrRan("initializeConfig", UpdateOutcome(u))
           ELSE /\ currentModel' = defaultModel
                /\ MgrRan("initializeConfig", "none")
                /\ UNCHANGED defaultModel
    /\ UNCHANGED <<o1proSession, syncInterval, timers, csVars, genVars>>

\* stopSync(): the timer the field holds is cleared, the others run on
stopSync(held, running) ==
    IF held # 0 THEN [syncInterval |-> 0, timers |-> running \ {held}]
    ELSE [syncInterval |-> held, timers |-> running]

\* startSync(): without a session it throws into its own catch; with one it
\* sets a new interval timer and stores it in the field
StartSync ==
    /\ Cardinality(timers) < MaxTimers
    /\ IF ~o1proSession
       THEN UNCHANGED <<syncInterval, timers>>
       ELSE \E t \in (1..MaxTimers) \ timers :
               /\ syncInterval' = t
               /\ timers' = timers \cup {t}
    /\ MgrRan("startSync", "none")
    /\ UNCHANGED <<currentModel, defaultModel, o1proSession, geminiKey, csVars, genVars>>

\* a running timer fires and calls sync(): without a session, stopSync()
Tick ==
    /\ \E t \in timers :
        LET after == IF o1proSession THEN [syncInterval |-> syncInterval, timers |-> timers]
                     ELSE stopSync(syncInterval, timers)
        IN /\ syncInterval' = after.syncInterval
           /\ timers' = after.timers
           /\ MgrRan("sync", "none")
    /\ UNCHANGED <<currentModel, defaultModel, o1proSession, geminiKey, csVars, genVars>>

\* stopSync(), called from outside, and dispose(), which calls it
StopSync ==
    /\ \E op \in {"stopSync", "dispose"} :
        /\ syncInterval' = stopSync(syncInterval, timers).syncInterval
        /\ timers' = stopSync(syncInterval, timers).timers
        /\ MgrRan(op, "none")
    /\ UNCHANGED <<currentModel, defaultModel, o1proSession, geminiKey, csVars, genVars>>

InitMgr == CsIdle /\ GenIdle

NextMgr ==
    \/ UpdateDefaultModel
    \/ UpdateSettings
    \/ SetO1ProSessionState
    \/ InitializeConfig
    \/ StartSync
    \/ Tick
    \/ StopSync

SpecMgr == InitMgr /\ [][NextMgr]_vars

\* C36: the default model follows the O1Pro session.  The current default
\* model is o1pro only while the stored session state is active, and a
\* call whose updateDefaultModel failed leaves the current model and the
\* persisted default as they were.
C36_DefaultFollowsSession ==
    [][/\ currentModel' = "o1pro" => o1proSession'
       /\ mgrOp'.update = "failed"
              => (currentModel' = currentModel /\ defaultModel' = defaultModel)]_vars

\* C37: a single sync timer.  At most one interval timer is running, none
\* after stopSync or dispose, and none of those the field holds after a
\* tick that found the session inactive.
C37_SingleSyncTimer ==
    [][/\ Cardinality(timers') <= 1
       /\ mgrOp'.op \in {"stopSync", "dispose"} => timers' = {}
       /\ (mgrOp'.op = "sync" /\ ~o1proSession') => syncInterval \notin timers']_vars

====
